---- MODULE Spec2Model ----
(***************************************************************************)
(* The record-editing session of the pipeline-throughput dataset           *)
(* program: the CSV loader (services/datasetService.ts), the menu          *)
(* controller with its create / update / delete / reload / save / chart /  *)
(* exit handlers (services/mainService.ts, runProgram) and the record      *)
(* classes (models/).                                                      *)
(*                                                                         *)
(* Text is a sequence of one-character strings, so that the CSV tokenizer  *)
(* and the JavaScript number conversions are computed character by         *)
(* character.  A JavaScript number is a decimal m / 10^e (or NaN).         *)
(* The input alphabet holds no exponent, hexadecimal or "Infinity"         *)
(* literal and no line terminator other than "\n".                         *)
(***************************************************************************)
EXTENDS Integers, Sequences, FiniteSets, TLC

(***************************************************************************)
(* Bounds of the model.                                                    *)
(***************************************************************************)
MaxRecords == 2

(***************************************************************************)
(* Characters and JavaScript values.                                       *)
(***************************************************************************)
Quote == "\""
Delimiter == ","
NL == "\n"
Space == " "

\* The value `undefined` where a text is expected (an array read past its end).
Undefined == <<"undefined">>

DigitChars == <<"0", "1", "2", "3", "4", "5", "6", "7", "8", "9">>
IsDigit(c) == \E d \in 1..10 : DigitChars[d] = c
DigitVal(c) == (CHOOSE d \in 1..10 : DigitChars[d] = c) - 1

NaN == [nan |-> TRUE, m |-> 0, e |-> 0]

RECURSIVE Pow10(_)
Pow10(e) == IF e = 0 THEN 1 ELSE 10 * Pow10(e - 1)

\* The number m / 10^e, in lowest terms of e.
RECURSIVE Num(_, _)
Num(m, e) ==
    IF e > 0 /\ m % 10 = 0
    THEN Num(m \div 10, e - 1)
    ELSE [nan |-> FALSE, m |-> m, e |-> e]

Zero == Num(0, 0)

\* WhiteSpace skipping of StringToNumber / parseInt / parseFloat.
RECURSIVE SkipWs(_, _)
SkipWs(s, i) ==
    IF i <= Len(s) /\ s[i] = Space THEN SkipWs(s, i + 1) ELSE i

\* One past the last character of s that is not white space.
RECURSIVE TrimEnd(_, _)
TrimEnd(s, j) ==
    IF j >= 1 /\ s[j] = Space THEN TrimEnd(s, j - 1) ELSE j + 1

\* First index at or after i that holds no decimal digit.
RECURSIVE DigitsEnd(_, _)
DigitsEnd(s, i) ==
    IF i <= Len(s) /\ IsDigit(s[i]) THEN DigitsEnd(s, i + 1) ELSE i

\* The value of the digits s[i] .. s[j-1], appended to acc.
RECURSIVE DigitsVal(_, _, _, _)
DigitsVal(s, i, j, acc) ==
    IF i >= j THEN acc ELSE DigitsVal(s, i + 1, j, 10 * acc + DigitVal(s[i]))

HasSign(s, i) == i <= Len(s) /\ s[i] \in {"-", "+"}
SignAt(s, i) == IF i <= Len(s) /\ s[i] = "-" THEN -1 ELSE 1

\* The longest StrDecimalLiteral starting at i (sign, digits, fraction):
\* [ok, num, next].  ok is FALSE when no digit is found.
StrDecimalLiteral(s, i) ==
    LET i1 == IF HasSign(s, i) THEN i + 1 ELSE i
        j  == DigitsEnd(s, i1)
        hasDot == j <= Len(s) /\ s[j] = "."
        k  == IF hasDot THEN DigitsEnd(s, j + 1) ELSE j
        intDigits  == j - i1
        fracDigits == IF hasDot THEN k - (j + 1) ELSE 0
        ip == DigitsVal(s, i1, j, 0)
        all == IF hasDot THEN DigitsVal(s, j + 1, k, ip) ELSE ip
    IN  IF intDigits = 0 /\ fracDigits = 0
        THEN [ok |-> FALSE, num |-> NaN, next |-> i]
        ELSE [ok |-> TRUE, num |-> Num(SignAt(s, i) * all, fracDigits), next |-> k]

\* parseInt(text): leading white space, a sign, then the longest run of digits.
parseInt(s) ==
    IF s = Undefined THEN NaN
    ELSE LET i  == SkipWs(s, 1)
             i1 == IF HasSign(s, i) THEN i + 1 ELSE i
             j  == DigitsEnd(s, i1)
         IN  IF j = i1 THEN NaN
             ELSE Num(SignAt(s, i) * DigitsVal(s, i1, j, 0), 0)

\* parseFloat(text): leading white space, then the longest decimal literal.
parseFloat(s) ==
    IF s = Undefined THEN NaN
    ELSE StrDecimalLiteral(s, SkipWs(s, 1)).num

\* Unary plus (+text): the whole trimmed text must be a literal; "" is 0.
ToNumber(s) ==
    IF s = Undefined THEN NaN
    ELSE LET i == SkipWs(s, 1)
             j == TrimEnd(s, Len(s))
             p == StrDecimalLiteral(s, i)
         IN  IF i >= j THEN Zero
             ELSE IF p.ok /\ p.next = j THEN p.num
             ELSE NaN

\* The decimal digits of a natural number.
RECURSIVE NatToText(_)
NatToText(n) ==
    IF n < 10 THEN <<DigitChars[n + 1]>>
    ELSE NatToText(n \div 10) \o <<DigitChars[(n % 10) + 1]>>

\* The last e digits of n, zero padded.
RECURSIVE FracToText(_, _)
FracToText(n, e) ==
    IF e = 0 THEN <<>>
    ELSE FracToText(n \div 10, e - 1) \o <<DigitChars[(n % 10) + 1]>>

\* Number::toString.
NumberToString(x) ==
    IF x.nan THEN <<"N", "a", "N">>
    ELSE LET a == IF x.m < 0 THEN -x.m ELSE x.m
             sign == IF x.m < 0 THEN <<"-">> ELSE <<>>
         IN  sign \o NatToText(a \div Pow10(x.e))
                  \o (IF x.e = 0 THEN <<>>
                      ELSE <<".">> \o FracToText(a % Pow10(x.e), x.e))

\* String.prototype.trim() yields the empty string.
IsBlank(s) == SkipWs(s, 1) > Len(s)

\* Array.prototype.join over texts.
RECURSIVE Join(_, _)
Join(parts, sep) ==
    IF parts = <<>> THEN <<>>
    ELSE IF Len(parts) = 1 THEN parts[1]
    ELSE parts[1] \o sep \o Join(Tail(parts), sep)

(***************************************************************************)
(* csv-parse, as the program configures it: delimiter ",", quote and       *)
(* escape '"', records ended by "\n", empty lines kept, and every record   *)
(* as long as the first one (relax_column_count is off).  relax is the     *)
(* relax_quotes option.                                                    *)
(***************************************************************************)
CsvInit ==
    [field |-> <<>>, quoting |-> FALSE, wasQuoting |-> FALSE,
     escaping |-> FALSE, record |-> <<>>, records |-> <<>>, err |-> ""]

CsvError(st, code) == [st EXCEPT !.err = code]

\* __onField: the field buffer becomes the next field of the record.
onField(st) ==
    [st EXCEPT !.record = Append(st.record, st.field),
               !.field = <<>>, !.wasQuoting = FALSE]

\* __onRecord: the record is pushed, unless its length differs from the
\* first record's.
onRecord(st) ==
    IF st.records = <<>> \/ Len(st.record) = Len(st.records[1])
    THEN [st EXCEPT !.records = Append(st.records, st.record), !.record = <<>>]
    ELSE CsvError(st, "CSV_RECORD_INCONSISTENT_FIELDS_LENGTH")

\* A turn that splits at every delimiter and record end, quotes or not, as
\* line.split(',') does.
parseStepUnquoted(buf, pos, relax, st) ==
    IF st.err # "" THEN st
    ELSE IF buf[pos] = NL THEN onRecord(onField(st))
    ELSE IF buf[pos] = Delimiter THEN onField(st)
    ELSE [st EXCEPT !.field = Append(@, buf[pos])]

\* One turn of the parser's loop (__parse) over the character at pos.
parseStep(buf, pos, relax, st) ==
    LET chr == buf[pos]
        appended(s) == [s EXCEPT !.field = Append(@, chr)]
    IN  IF st.err # "" THEN st
        ELSE IF st.escaping
        THEN appended([st EXCEPT !.escaping = FALSE])
        ELSE IF st.quoting /\ chr = Quote /\ pos < Len(buf) /\ buf[pos + 1] = Quote
        THEN [st EXCEPT !.escaping = TRUE]
        ELSE IF chr = Quote /\ st.quoting
        THEN IF pos = Len(buf) \/ buf[pos + 1] \in {Delimiter, NL}
             THEN [st EXCEPT !.quoting = FALSE, !.wasQuoting = TRUE]
             ELSE IF ~relax
             THEN CsvError(st, "CSV_INVALID_CLOSING_QUOTE")
             ELSE [st EXCEPT !.quoting = FALSE, !.wasQuoting = TRUE,
                             !.field = <<Quote>> \o @ \o <<chr>>]
        ELSE IF chr = Quote /\ st.field = <<>>
        THEN [st EXCEPT !.quoting = TRUE]
        ELSE IF chr = Quote /\ ~relax
        THEN CsvError(st, "INVALID_OPENING_QUOTE")
        ELSE IF ~st.quoting /\ chr = NL
        THEN onRecord(onField(st))
        ELSE IF ~st.quoting /\ chr = Delimiter
        THEN onField(st)
        ELSE appended(st)

\* The loop over the positions lo..hi, in order (evaluated by halves).
RECURSIVE parseRange(_, _, _, _, _)
parseRange(buf, lo, hi, relax, st) ==
    IF lo > hi THEN st
    ELSE IF lo = hi THEN parseStep(buf, lo, relax, st)
    ELSE LET mid == (lo + hi) \div 2
             left == parseRange(buf, lo, mid, relax, st)
         IN  IF left.err # "" THEN left
             ELSE parseRange(buf, mid + 1, hi, relax, left)

\* The end of the input: an open quote is an error, a last record without
\* a record end is pushed, an empty last line is not.
parseEnd(st) ==
    IF st.err # "" THEN st
    ELSE IF st.quoting
    THEN CsvError(st, "CSV_QUOTE_NOT_CLOSED")
    ELSE IF st.wasQuoting \/ st.record # <<>> \/ st.field # <<>>
    THEN onRecord(onField(st))
    ELSE st

\* parse(text, {delimiter: ',', relax_quotes: relax}): [err, records].
parse(text, relax) ==
    LET st == parseEnd(parseRange(text, 1, Len(text), relax, CsvInit)) IN
    [err |-> st.err, records |-> IF st.err = "" THEN st.records ELSE <<>>]

(***************************************************************************)
(* Records: the 17 constructor parameters of Record / BaseRecord /         *)
(* DetailedRecord, in declaration order.                                   *)
(***************************************************************************)
FieldCount == 17

At(data, k) == IF k <= Len(data) THEN data[k] ELSE Undefined

\* new DetailedRecord(data[0], parseInt(data[1]), ..., data[16]) of
\* createRecord and updateRecord.
NewDetailedRecord(data) ==
    [Date |-> At(data, 1),
     Month |-> parseInt(At(data, 2)),
     Year |-> parseInt(At(data, 3)),
     Company |-> At(data, 4),
     Pipeline |-> At(data, 5),
     KeyPoint |-> At(data, 6),
     Latitude |-> parseFloat(At(data, 7)),
     Longitude |-> parseFloat(At(data, 8)),
     DirectionOfFlow |-> At(data, 9),
     TradeType |-> At(data, 10),
     Product |-> At(data, 11),
     Throughput |-> parseFloat(At(data, 12)),
     CommittedVolumes |-> parseFloat(At(data, 13)),
     UncommittedVolumes |-> parseFloat(At(data, 14)),
     NameplateCapacity |-> parseFloat(At(data, 15)),
     AvailableCapacity |-> parseFloat(At(data, 16)),
     ReasonForVariance |-> At(data, 17)]

\* new Record(row[0], +row[1], ..., row[16]) of the loader's 'data' handler.
RowRecord(row) ==
    [Date |-> At(row, 1),
     Month |-> ToNumber(At(row, 2)),
     Year |-> ToNumber(At(row, 3)),
     Company |-> At(row, 4),
     Pipeline |-> At(row, 5),
     KeyPoint |-> At(row, 6),
     Latitude |-> ToNumber(At(row, 7)),
     Longitude |-> ToNumber(At(row, 8)),
     DirectionOfFlow |-> At(row, 9),
     TradeType |-> At(row, 10),
     Product |-> At(row, 11),
     Throughput |-> ToNumber(At(row, 12)),
     CommittedVolumes |-> ToNumber(At(row, 13)),
     UncommittedVolumes |-> ToNumber(At(row, 14)),
     NameplateCapacity |-> ToNumber(At(row, 15)),
     AvailableCapacity |-> ToNumber(At(row, 16)),
     ReasonForVariance |-> At(row, 17)]

\* Object.values(record): the 17 values in declaration order, numbers told
\* from texts by isText.
ObjectValues(r) ==
    << [isText |-> TRUE,  text |-> r.Date,              num |-> NaN],
       [isText |-> FALSE, text |-> <<>>,                num |-> r.Month],
       [isText |-> FALSE, text |-> <<>>,                num |-> r.Year],
       [isText |-> TRUE,  text |-> r.Company,           num |-> NaN],
       [isText |-> TRUE,  text |-> r.Pipeline,          num |-> NaN],
       [isText |-> TRUE,  text |-> r.KeyPoint,          num |-> NaN],
       [isText |-> FALSE, text |-> <<>>,                num |-> r.Latitude],
       [isText |-> FALSE, text |-> <<>>,                num |-> r.Longitude],
       [isText |-> TRUE,  text |-> r.DirectionOfFlow,   num |-> NaN],
       [isText |-> TRUE,  text |-> r.TradeType,         num |-> NaN],
       [isText |-> TRUE,  text |-> r.Product,           num |-> NaN],
       [isText |-> FALSE, text |-> <<>>,                num |-> r.Throughput],
       [isText |-> FALSE, text |-> <<>>,                num |-> r.CommittedVolumes],
       [isText |-> FALSE, text |-> <<>>,                num |-> r.UncommittedVolumes],
       [isText |-> FALSE, text |-> <<>>,                num |-> r.NameplateCapacity],
       [isText |-> FALSE, text |-> <<>>,                num |-> r.AvailableCapacity],
       [isText |-> TRUE,  text |-> r.ReasonForVariance, num |-> NaN] >>

(***************************************************************************)
(* The loader: fs.createReadStream(filePath).pipe(parse({delimiter: ','})) *)
(* with 'data', 'end' and 'error' listeners on the parser.  content is the *)
(* file's text, or Absent when the path cannot be opened.                  *)
(***************************************************************************)
Absent == <<"ENOENT">>

RECURSIVE MapRows(_)
MapRows(rows) ==
    IF rows = <<>> THEN <<>> ELSE <<RowRecord(rows[1])>> \o MapRows(Tail(rows))

\* The outcome of loadDataset: "resolved" with the records, "rejected" (the
\* parser emitted 'error'), or "uncaught": the read stream emitted 'error',
\* for which no listener is registered (the listeners are on the stream
\* that pipe() returns), so the promise is never settled and the error is
\* thrown out of the event loop.
loadDataset(content) ==
    IF content = Absent
    THEN [outcome |-> "uncaught", records |-> <<>>]
    ELSE LET p == parse(content, FALSE) IN
         IF p.err # ""
         THEN [outcome |-> "rejected", records |-> <<>>]
         ELSE [outcome |-> "resolved", records |-> MapRows(p.records)]

(***************************************************************************)
(* saveDataset's text: the header line, then one line per record.          *)
(***************************************************************************)
headers ==
    << <<"D", "a", "t", "e">>,
       <<"M", "o", "n", "t", "h">>,
       <<"Y", "e", "a", "r">>,
       <<"C", "o", "m", "p", "a", "n", "y">>,
       <<"P", "i", "p", "e", "l", "i", "n", "e">>,
       <<"K", "e", "y", " ", "P", "o", "i", "n", "t">>,
       <<"L", "a", "t", "i", "t", "u", "d", "e">>,
       <<"L", "o", "n", "g", "i", "t", "u", "d", "e">>,
       <<"D", "i", "r", "e", "c", "t", "i", "o", "n", " ", "O", "f", " ", "F", "l", "o", "w">>,
       <<"T", "r", "a", "d", "e", " ", "T", "y", "p", "e">>,
       <<"P", "r", "o", "d", "u", "c", "t">>,
       <<"T", "h", "r", "o", "u", "g", "h", "p", "u", "t", " ", "(", "1", "0", "0", "0", " ", "m", "3", "/", "d", ")">>,
       <<"C", "o", "m", "m", "i", "t", "t", "e", "d", " ", "V", "o", "l", "u", "m", "e", "s", " ", "(", "1", "0", "0", "0", " ", "m", "3", "/", "d", ")">>,
       <<"U", "n", "c", "o", "m", "m", "i", "t", "t", "e", "d", " ", "V", "o", "l", "u", "m", "e", "s", " ", "(", "1", "0", "0", "0", " ", "m", "3", "/", "d", ")">>,
       <<"N", "a", "m", "e", "p", "l", "a", "t", "e", " ", "C", "a", "p", "a", "c", "i", "t", "y", " ", "(", "1", "0", "0", "0", " ", "m", "3", "/", "d", ")">>,
       <<"A", "v", "a", "i", "l", "a", "b", "l", "e", " ", "C", "a", "p", "a", "c", "i", "t", "y", " ", "(", "1", "0", "0", "0", " ", "m", "3", "/", "d", ")">>,
       <<"R", "e", "a", "s", "o", "n", " ", "F", "o", "r", " ", "V", "a", "r", "i", "a", "n", "c", "e">> >>

Includes(s, c) == \E i \in 1..Len(s) : s[i] = c

\* value.replace(/"/g, '""')
RECURSIVE escapeQuotes(_)
escapeQuotes(s) ==
    IF s = <<>> THEN <<>>
    ELSE (IF s[1] = Quote THEN <<Quote, Quote>> ELSE <<s[1]>>)
         \o escapeQuotes(Tail(s))

\* The value left to join() as it is, without quotes.
csvValueBare(v) ==
    IF v.isText
    THEN IF v.text = Undefined THEN <<>> ELSE v.text
    ELSE NumberToString(v.num)

\* One value of a data line: a text holding a comma is quoted with its
\* quotes doubled; anything else is left to join(), which writes a number
\* with Number::toString and undefined as the empty text.
csvValue(v) ==
    IF v.isText
    THEN IF v.text = Undefined THEN <<>>
         ELSE IF Includes(v.text, Delimiter)
         THEN <<Quote>> \o escapeQuotes(v.text) \o <<Quote>>
         ELSE v.text
    ELSE NumberToString(v.num)

csvDataLine(r) ==
    Join([k \in 1..FieldCount |-> csvValue(ObjectValues(r)[k])], <<Delimiter>>)

headerLine == Join(headers, <<Delimiter>>)

csvContent(records) ==
    Join(<<headerLine>>
             \o [k \in 1..Len(records) |-> csvDataLine(records[k])],
         <<NL>>)

(***************************************************************************)
(* Inputs: the lines a user types and the texts the dataset file holds.    *)
(***************************************************************************)
\* d,1,2,c,p,k,1.5,-2,s,e,o,3,4,5,6,7,r
PlainFields ==
    << <<"d">>, <<"1">>, <<"2">>, <<"c">>, <<"p">>, <<"k">>,
       <<"1", ".", "5">>, <<"-", "2">>, <<"s">>, <<"e">>, <<"o">>,
       <<"3">>, <<"4">>, <<"5">>, <<"6">>, <<"7">>, <<"r">> >>

\* f,7.5,9a,,q,"x,y",-1.5,x,s,i,g,0,, 2,3.,-4,"r"
RichFields ==
    << <<"f">>, <<"7", ".", "5">>, <<"9", "a">>, <<>>, <<"q">>,
       <<Quote, "x", ",", "y", Quote>>,
       <<"-", "1", ".", "5">>, <<"x">>, <<"s">>, <<"i">>, <<"g">>,
       <<"0">>, <<>>, <<" ", "2">>, <<"3", ".">>, <<"-", "4">>,
       <<Quote, "r", Quote>> >>

LinePlain == Join(PlainFields, <<Delimiter>>)
LineRich == Join(RichFields, <<Delimiter>>)
Line18 == Join(RichFields \o << <<"z">> >>, <<Delimiter>>)
Line16 == Join(SubSeq(PlainFields, 1, 16), <<Delimiter>>)
Line2 == <<"a", ",", "b">>
LineEmpty == <<>>
LineBlank == <<" ", " ">>
LineUnclosed == <<Quote, "a">>

DataLines ==
    {LinePlain, LineRich, Line18, Line16, Line2, LineEmpty, LineBlank, LineUnclosed}

IndexInputs ==
    { <<"0">>, <<"1">>, <<"2">>, <<"9">>, <<"-", "1">>, <<"x">>, <<"2", "x">> }

\* What is answered to "Choose a charting option: ".
ChartChoices == { <<"1">>, <<"2">>, <<"3">>, <<"4">>, <<"9">> }

MenuChoices ==
    { <<"1">>, <<"2">>, <<"3">>, <<"4">>, <<"5">>, <<"6">>, <<"7">>, <<"8">>,
      <<"9">>, <<>> }

FileGood == headerLine \o <<NL>> \o LinePlain \o <<NL>>
FileHeaderOnly == headerLine
FileEmpty == <<>>
FileBad == headerLine \o <<NL>> \o Line2 \o <<NL>>

SourceTexts == {FileGood, FileHeaderOnly, FileEmpty, FileBad, Absent}

\* What another process can leave at the dataset's path during a session.
DamagedTexts == {FileBad, Absent}

(***************************************************************************)
(* The session.                                                            *)
(***************************************************************************)
\* main() of app.ts passes this path to runProgram; saveDataset's outputFile.
filePath == "./src/keystone-throughput-and-capacity.csv"
outputFile == "./src/updated_dataset.csv"
Paths == {filePath, outputFile}

\* No line is waiting for the pending prompt's callback.
NoLine == <<"no line">>

VARIABLES
    state,      \* where the controller is: the pending prompt or running step
    line,       \* the line readline has read for the pending prompt, or NoLine
    records,    \* the elements of runProgram's records array
    index,      \* updateRecord's index, between its two prompts
    files,      \* the text at each path, or Absent
    promise,    \* the promise runProgram returns: "pending" or "resolved"
    rlClose,    \* whether the current readline interface has the close override
    menuShown,  \* how many times showMenu() ran since readline last read a line
    year,       \* interactiveChartMenu's year, between its two prompts
    last        \* history: the last handler that ran and what it did

vars == <<state, line, records, index, files, promise, rlClose, menuShown, year, last>>

\* showMenu(): the menu is printed and rl.question asks for the choice.
showMenu(n) == n + 1

NoIndex == [nan |-> FALSE, v |-> 0]

Did(op, outcome) == [op |-> op, outcome |-> outcome]

\* The conversions of the lines and file texts of this model, computed once.
ParsedLine == [l \in DataLines |-> parse(l, TRUE)]
LoadedText == [t \in SourceTexts |-> loadDataset(t)]

\* await loadDataset(path), for the text at the path.
loaded(text) == IF text \in SourceTexts THEN LoadedText[text] ELSE loadDataset(text)

\* parseInt(input) - 1
IndexOf(input) ==
    LET n == parseInt(input) IN
    IF n.nan THEN [nan |-> TRUE, v |-> 0] ELSE [nan |-> FALSE, v |-> n.m - 1]

\* index < 0 || index > records.length: a range test one too wide.
IndexRejectedBeyond(ix, recs) == ~ix.nan /\ (ix.v < 0 \/ ix.v > Len(recs))

\* index < 0 || index >= records.length (false for NaN on both sides)
IndexRejected(ix, recs) == ~ix.nan /\ (ix.v < 0 \/ ix.v >= Len(recs))

\* records.splice(index + 1, 1): the record number taken as the array index.
spliceOneBased(recs, ix) ==
    LET start == IF ix.nan THEN 0 ELSE ix.v + 1 IN
    [k \in 1..(IF start < Len(recs) THEN Len(recs) - 1 ELSE Len(recs)) |->
        IF k <= start THEN recs[k] ELSE recs[k + 1]]

\* records.splice(index, 1): a NaN start is taken as 0.
splice(recs, ix) ==
    LET start == IF ix.nan THEN 0 ELSE ix.v IN
    [k \in 1..(IF start < Len(recs) THEN Len(recs) - 1 ELSE Len(recs)) |->
        IF k <= start THEN recs[k] ELSE recs[k + 1]]

\* records.unshift(newRecord): the record put first, not last.
unshift(recs, r) == <<r>> \o recs

\* records.push(newRecord)
push(recs, r) == Append(recs, r)

Init ==
    /\ state = "Loading"
    /\ line = NoLine
    /\ records = <<>>
    /\ index = NoIndex
    /\ files \in [Paths -> SourceTexts]
    /\ files[outputFile] = Absent
    /\ promise = "pending"
    /\ rlClose = "override"
    /\ menuShown = 0
    /\ year = NoIndex
    /\ last = Did("start", "")

\* runProgram with a catch that reports the failure and goes on to the menu.
InitialLoadIgnoringFailure ==
    /\ state = "Loading"
    /\ LET l == loaded(files[filePath]) IN
       /\ records' = l.records
       /\ state' = IF l.outcome = "uncaught" THEN "Crashed" ELSE "AwaitingMenuChoice"
       /\ last' = Did("load", l.outcome)
    /\ menuShown' = IF state' = "AwaitingMenuChoice" THEN showMenu(menuShown) ELSE menuShown
    /\ UNCHANGED <<line, index, files, promise, rlClose, year>>

\* runProgram up to showMenu(): the first load.  A rejected load is reported
\* and runProgram returns [] without creating the readline interface.
InitialLoad ==
    /\ state = "Loading"
    /\ LET l == loaded(files[filePath]) IN
       /\ records' = l.records
       /\ state' = CASE l.outcome = "resolved" -> "AwaitingMenuChoice"
                     [] l.outcome = "rejected" -> "Terminated"
                     [] OTHER -> "Crashed"
       /\ promise' = IF l.outcome = "rejected" THEN "resolved" ELSE promise
       /\ last' = Did("load", l.outcome)
    /\ menuShown' = IF state' = "AwaitingMenuChoice" THEN showMenu(menuShown) ELSE menuShown
    /\ UNCHANGED <<line, index, files, rlClose, year>>

\* The texts a user may answer to the pending prompt.  A session is kept
\* within MaxRecords records by not choosing Create at that length.
Answers ==
    CASE state = "AwaitingMenuChoice" ->
            IF Len(records) < MaxRecords THEN MenuChoices
            ELSE MenuChoices \ { <<"2">> }
      [] state \in {"AwaitingCreateInput", "AwaitingUpdateInput"} -> DataLines
      [] state \in {"AwaitingUpdateTarget", "AwaitingDeleteTarget",
                    "AwaitingChartTarget", "AwaitingMonthChartYear",
                    "AwaitingChartMonth", "AwaitingYearChartYear"} -> IndexInputs
      [] state = "AwaitingChartChoice" -> ChartChoices
      [] OTHER -> {}

\* readline reads the line that answers the pending rl.question.
ReadLine ==
    /\ line = NoLine
    /\ \E input \in Answers : line' = input
    /\ menuShown' = 0
    /\ UNCHANGED <<state, records, index, files, promise, rlClose, last, year>>

\* handleMenuInput('1') displaying with displayRecord(records.shift()) until
\* the array is empty.
MenuDisplayShifting ==
    /\ state = "AwaitingMenuChoice"
    /\ line = <<"1">>
    /\ line' = NoLine
    /\ records' = <<>>
    /\ last' = Did("menu", "display")
    /\ menuShown' = showMenu(menuShown)
    /\ UNCHANGED <<state, index, files, promise, rlClose, year>>

\* handleMenuInput('1'): every record is displayed, then the menu.
MenuDisplay ==
    /\ state = "AwaitingMenuChoice"
    /\ line = <<"1">>
    /\ line' = NoLine
    /\ last' = Did("menu", "display")
    /\ menuShown' = showMenu(menuShown)
    /\ UNCHANGED <<state, records, index, files, promise, rlClose, year>>

\* handleMenuInput('2'): createRecord() asks for the record's line.
MenuCreate ==
    /\ state = "AwaitingMenuChoice"
    /\ line = <<"2">>
    /\ line' = NoLine
    /\ state' = "AwaitingCreateInput"
    /\ last' = Did("menu", "create")
    /\ UNCHANGED <<records, index, files, promise, rlClose, menuShown, year>>

\* handleMenuInput('3'): updateRecord() asks for the record number.
MenuUpdate ==
    /\ state = "AwaitingMenuChoice"
    /\ line = <<"3">>
    /\ line' = NoLine
    /\ state' = "AwaitingUpdateTarget"
    /\ last' = Did("menu", "update")
    /\ UNCHANGED <<records, index, files, promise, rlClose, menuShown, year>>

\* handleMenuInput('4'): deleteRecord() asks for the record number.
MenuDelete ==
    /\ state = "AwaitingMenuChoice"
    /\ line = <<"4">>
    /\ line' = NoLine
    /\ state' = "AwaitingDeleteTarget"
    /\ last' = Did("menu", "delete")
    /\ UNCHANGED <<records, index, files, promise, rlClose, menuShown, year>>

\* handleMenuInput('5'): reloadDataset() starts the load and awaits it.
MenuReload ==
    /\ state = "AwaitingMenuChoice"
    /\ line = <<"5">>
    /\ line' = NoLine
    /\ state' = "Reloading"
    /\ last' = Did("menu", "reload")
    /\ UNCHANGED <<records, index, files, promise, rlClose, menuShown, year>>

\* fs.writeFileSync(filePath, csvContent): the dataset file written in place.
saveDatasetOverSource(fs, recs, opened) ==
    IF opened THEN [fs EXCEPT ![filePath] = csvContent(recs)] ELSE fs

\* saveDataset's write: fs.writeFileSync(outputFile, csvContent), which
\* throws, for the catch to report, when the file cannot be opened.
saveDataset(fs, recs, opened) ==
    IF opened THEN [fs EXCEPT ![outputFile] = csvContent(recs)] ELSE fs

\* saveDataset without its try/catch: a failed write is thrown out of the
\* prompt callback.
MenuSaveUncaught ==
    /\ state = "AwaitingMenuChoice"
    /\ line = <<"6">>
    /\ line' = NoLine
    /\ \E opened \in BOOLEAN :
        /\ files' = saveDataset(files, records, opened)
        /\ state' = IF opened THEN state ELSE "Crashed"
        /\ last' = Did("save", IF opened THEN "saved" ELSE "uncaught")
    /\ menuShown' = IF state' = "AwaitingMenuChoice" THEN showMenu(menuShown) ELSE menuShown
    /\ UNCHANGED <<records, index, promise, rlClose, year>>

\* handleMenuInput('6'): saveDataset(), then the menu.
MenuSave ==
    /\ state = "AwaitingMenuChoice"
    /\ line = <<"6">>
    /\ line' = NoLine
    /\ \E opened \in BOOLEAN :
        /\ files' = saveDataset(files, records, opened)
        /\ last' = Did("save", IF opened THEN "saved" ELSE "failed")
    /\ menuShown' = showMenu(menuShown)
    /\ UNCHANGED <<state, records, index, promise, rlClose, year>>

\* handleMenuInput('7'): with no record the menu, else the record number prompt.
MenuChart ==
    /\ state = "AwaitingMenuChoice"
    /\ line = <<"7">>
    /\ line' = NoLine
    /\ state' = IF Len(records) = 0 THEN "AwaitingMenuChoice" ELSE "AwaitingChartTarget"
    /\ last' = Did("menu", "chart")
    /\ menuShown' = IF state' = "AwaitingMenuChoice" THEN showMenu(menuShown) ELSE menuShown
    /\ UNCHANGED <<records, index, files, promise, rlClose, year>>

\* rl.close(): the first interface's close is overridden to resolve the
\* promise with the records; an interface created later has the plain close.
closed(p, rc) == IF rc = "override" THEN "resolved" ELSE p

\* handleMenuInput('8')
MenuExit ==
    /\ state = "AwaitingMenuChoice"
    /\ line = <<"8">>
    /\ line' = NoLine
    /\ state' = "Terminated"
    /\ promise' = closed(promise, rlClose)
    /\ last' = Did("menu", "exit")
    /\ UNCHANGED <<records, index, files, rlClose, menuShown, year>>

\* handleMenuInput(anything else)
MenuInvalid ==
    /\ state = "AwaitingMenuChoice"
    /\ line \in { <<"9">>, <<>> }
    /\ line' = NoLine
    /\ last' = Did("menu", "invalid")
    /\ menuShown' = showMenu(menuShown)
    /\ UNCHANGED <<state, records, index, files, promise, rlClose, year>>

\* createRecord with updateRecord's test data.length < 17.
createRecordAtLeast(recs, input) ==
    IF IsBlank(input)
    THEN [outcome |-> "no-input", records |-> recs]
    ELSE LET p == ParsedLine[input] IN
         IF p.err # ""
         THEN [outcome |-> "parse-error", records |-> recs]
         ELSE IF p.records = <<>>
         THEN [outcome |-> "uncaught", records |-> recs]
         ELSE IF Len(p.records[1]) < FieldCount
         THEN [outcome |-> "field-count", records |-> recs]
         ELSE [outcome |-> "created",
               records |-> Append(recs, NewDetailedRecord(p.records[1]))]

\* createRecord's prompt callback with its parse callback: the outcome and
\* the records array afterwards.  output[0] of an empty output is undefined
\* and reading its length throws out of the callback.
createRecord(recs, input) ==
    IF IsBlank(input)
    THEN [outcome |-> "no-input", records |-> recs]
    ELSE LET p == ParsedLine[input] IN
         IF p.err # ""
         THEN [outcome |-> "parse-error", records |-> recs]
         ELSE IF p.records = <<>>
         THEN [outcome |-> "uncaught", records |-> recs]
         ELSE IF Len(p.records[1]) # FieldCount
         THEN [outcome |-> "field-count", records |-> recs]
         ELSE [outcome |-> "created",
               records |-> push(recs, NewDetailedRecord(p.records[1]))]

CreateInput ==
    /\ state = "AwaitingCreateInput"
    /\ line # NoLine
    /\ LET c == createRecord(records, line) IN
        /\ records' = c.records
        /\ state' = IF c.outcome = "uncaught" THEN "Crashed" ELSE "AwaitingMenuChoice"
        /\ last' = Did("create", c.outcome)
    /\ line' = NoLine
    /\ menuShown' = IF state' = "AwaitingMenuChoice" THEN showMenu(menuShown) ELSE menuShown
    /\ UNCHANGED <<index, files, promise, rlClose, year>>

\* updateRecord's first prompt callback: TRUE when the record number is
\* turned down and the menu shown again.
updateRejects(recs, input) == IndexRejected(IndexOf(input), recs)

UpdateTarget ==
    /\ state = "AwaitingUpdateTarget"
    /\ line # NoLine
    /\ state' = IF updateRejects(records, line)
                THEN "AwaitingMenuChoice" ELSE "AwaitingUpdateInput"
    /\ index' = IF updateRejects(records, line) THEN NoIndex ELSE IndexOf(line)
    /\ last' = Did("update-target",
                   IF updateRejects(records, line) THEN "invalid" ELSE "accepted")
    /\ line' = NoLine
    /\ menuShown' = IF state' = "AwaitingMenuChoice" THEN showMenu(menuShown) ELSE menuShown
    /\ UNCHANGED <<records, files, promise, rlClose, year>>

\* records[index + 1] = r: the record number taken as the array index.
assignAtOneBased(recs, ix, r) ==
    IF ix.nan THEN recs
    ELSE [k \in 1..Len(recs) |-> IF k = ix.v + 2 THEN r ELSE recs[k]]

\* records[index] = r.  For a NaN index the assignment sets the array's
\* property "NaN", which no operation of the program reads: the elements
\* and the length stay as they are.
assignAt(recs, ix, r) ==
    IF ix.nan THEN recs ELSE [recs EXCEPT ![ix.v + 1] = r]

\* updateRecord's second prompt callback with its parse callback: the
\* outcome and the array afterwards.
updateRecord(recs, ix, updatedData) ==
    LET p == ParsedLine[updatedData] IN
    IF p.err # ""
    THEN [outcome |-> "parse-error", records |-> recs]
    ELSE IF p.records = <<>>
    THEN [outcome |-> "uncaught", records |-> recs]
    ELSE IF Len(p.records[1]) < FieldCount
    THEN [outcome |-> "field-count", records |-> recs]
    ELSE [outcome |-> "updated",
          records |-> assignAt(recs, ix, NewDetailedRecord(p.records[1]))]

UpdateInput ==
    /\ state = "AwaitingUpdateInput"
    /\ line # NoLine
    /\ LET u == updateRecord(records, index, line) IN
        /\ records' = u.records
        /\ state' = IF u.outcome = "uncaught" THEN "Crashed" ELSE "AwaitingMenuChoice"
        /\ last' = Did("update", u.outcome)
    /\ index' = NoIndex
    /\ line' = NoLine
    /\ menuShown' = IF state' = "AwaitingMenuChoice" THEN showMenu(menuShown) ELSE menuShown
    /\ UNCHANGED <<files, promise, rlClose, year>>

\* deleteRecord's prompt callback: the outcome and the array afterwards.
deleteRecord(recs, input) ==
    IF IndexRejected(IndexOf(input), recs)
    THEN [outcome |-> "invalid", records |-> recs]
    ELSE [outcome |-> "deleted", records |-> splice(recs, IndexOf(input))]

DeleteTarget ==
    /\ state = "AwaitingDeleteTarget"
    /\ line # NoLine
    /\ LET d == deleteRecord(records, line) IN
        /\ records' = d.records
        /\ last' = Did("delete", d.outcome)
    /\ state' = "AwaitingMenuChoice"
    /\ line' = NoLine
    /\ menuShown' = showMenu(menuShown)
    /\ UNCHANGED <<index, files, promise, rlClose, year>>

\* reloadDataset pushing the loaded records behind the present ones.
reloadDatasetAppending(recs, l) ==
    IF l.outcome = "resolved" THEN recs \o l.records ELSE recs

\* reloadDataset after its await: the array the loader resolved with, or the
\* array as it was when the loader rejected.
reloadDataset(recs, l) == IF l.outcome = "resolved" THEN l.records ELSE recs

\* The path reloadDataset loads from.
reloadPath == filePath

ReloadDone ==
    /\ state = "Reloading"
    /\ LET l == loaded(files[reloadPath]) IN
       /\ records' = reloadDataset(records, l)
       /\ state' = IF l.outcome = "uncaught" THEN "Crashed" ELSE "AwaitingMenuChoice"
       /\ last' = Did("reload", l.outcome)
    /\ menuShown' = IF state' = "AwaitingMenuChoice" THEN showMenu(menuShown) ELSE menuShown
    /\ UNCHANGED <<line, index, files, promise, rlClose, year>>

\* x || 0 for a number, at the scale 10^-E.
Scaled(x, E) == IF x.nan THEN 0 ELSE x.m * Pow10(E - x.e)

\* generateTerminalChart: '█'.repeat(barLength) throws a RangeError for a
\* bar length Math.round((value / Math.max(...values)) * 20) that is
\* negative or infinite.
chartThrows(r) ==
    LET xs == <<r.Throughput, r.CommittedVolumes, r.UncommittedVolumes,
                r.AvailableCapacity>>
        E  == CHOOSE e \in {xs[k].e : k \in 1..4} : \A k \in 1..4 : xs[k].e <= e
        vs == [k \in 1..4 |-> Scaled(xs[k], E)]
        mx == CHOOSE v \in {vs[k] : k \in 1..4} : \A k \in 1..4 : vs[k] <= v
    IN  \E k \in 1..4 :
            vs[k] < 0 /\ (mx = 0 \/ (mx > 0 /\ (-40) * vs[k] > mx))

\* The chart option's prompt callback, up to the wait for a key.
ChartTarget ==
    /\ state = "AwaitingChartTarget"
    /\ line # NoLine
    /\ LET ix == IndexOf(line)
           bad == ix.nan \/ ix.v < 0 \/ ix.v >= Len(records)
       IN  /\ state' = IF bad THEN "AwaitingMenuChoice"
                       ELSE IF chartThrows(records[ix.v + 1]) THEN "Crashed"
                       ELSE "ChartShown"
           /\ last' = Did("chart-target", IF bad THEN "invalid" ELSE "accepted")
    /\ line' = NoLine
    /\ menuShown' = IF state' = "AwaitingMenuChoice" THEN showMenu(menuShown) ELSE menuShown
    /\ UNCHANGED <<records, index, files, promise, rlClose, year>>

\* A key is pressed: rl.close(), a new readline interface, the menu.
ChartKey ==
    /\ state = "ChartShown"
    /\ promise' = closed(promise, rlClose)
    /\ rlClose' = "plain"
    /\ state' = "AwaitingMenuChoice"
    /\ last' = Did("chart-key", "")
    /\ menuShown' = showMenu(menuShown)
    /\ UNCHANGED <<line, records, index, files, year>>

\* Another process replaces or removes the dataset file.  The program sees
\* the file only when a load reads it, so the change is placed right
\* before the reload that meets it.
SourceFileDamaged ==
    /\ state = "Reloading"
    /\ files[filePath] \notin DamagedTexts
    /\ \E text \in DamagedTexts : files' = [files EXCEPT ![filePath] = text]
    /\ UNCHANGED <<state, line, records, index, promise, rlClose, last, menuShown, year>>

Next ==
    \/ InitialLoad
    \/ ReadLine
    \/ MenuDisplay
    \/ MenuCreate
    \/ MenuUpdate
    \/ MenuDelete
    \/ MenuReload
    \/ MenuSave
    \/ MenuChart
    \/ MenuExit
    \/ MenuInvalid
    \/ CreateInput
    \/ UpdateTarget
    \/ UpdateInput
    \/ DeleteTarget
    \/ ReloadDone
    \/ ChartTarget
    \/ ChartKey
    \/ SourceFileDamaged

Spec == Init /\ [][Next]_vars

(***************************************************************************)
(* Properties of Create, Update and Delete.                                *)
(***************************************************************************)

\* C1: when Create is answered with a line that parses to exactly 17
\* fields, the array grows by one element, the elements it had keep their
\* places and values, and the new last element holds the parsed fields in
\* order: the text fields as parsed, the numeric fields through
\* parseInt (Month, Year) and parseFloat.
CreateAppendsOneRecord ==
    [][(/\ state = "AwaitingCreateInput"
        /\ line \in DataLines
        /\ ParsedLine[line].err = ""
        /\ Len(ParsedLine[line].records) = 1
        /\ Len(ParsedLine[line].records[1]) = 17)
       => LET d == ParsedLine[line].records[1]
              r == records'[Len(records')]
          IN  /\ Len(records') = Len(records) + 1
              /\ \A k \in 1..Len(records) : records'[k] = records[k]
              /\ r.Date = d[1]
              /\ r.Month = parseInt(d[2])
              /\ r.Year = parseInt(d[3])
              /\ r.Company = d[4]
              /\ r.Pipeline = d[5]
              /\ r.KeyPoint = d[6]
              /\ r.Latitude = parseFloat(d[7])
              /\ r.Longitude = parseFloat(d[8])
              /\ r.DirectionOfFlow = d[9]
              /\ r.TradeType = d[10]
              /\ r.Product = d[11]
              /\ r.Throughput = parseFloat(d[12])
              /\ r.CommittedVolumes = parseFloat(d[13])
              /\ r.UncommittedVolumes = parseFloat(d[14])
              /\ r.NameplateCapacity = parseFloat(d[15])
              /\ r.AvailableCapacity = parseFloat(d[16])
              /\ r.ReasonForVariance = d[17]
              /\ line = LineRich =>
                    /\ r.Month = Num(7, 0)
                    /\ r.Year = Num(9, 0)
                    /\ r.Company = <<>>
                    /\ r.KeyPoint = <<"x", ",", "y">>
                    /\ r.Latitude = Num(-15, 1)
                    /\ r.Longitude = NaN
                    /\ r.CommittedVolumes = NaN
                    /\ r.UncommittedVolumes = Num(2, 0)
                    /\ r.NameplateCapacity = Num(3, 0)
                    /\ r.ReasonForVariance = <<"r">>]_vars

\* A record has just been appended behind another one.
CreateAppendsOneRecordWitness ==
    /\ last = Did("create", "created")
    /\ Len(records) = 2
    /\ records[2].KeyPoint = <<"x", ",", "y">>
    /\ records[1].KeyPoint = <<"k">>

\* C2: when Update has taken a record number i within 1..length and is
\* answered with a line that parses to exactly 17 fields, the array keeps
\* its length, the element at position i is the record of the parsed fields
\* and every other element is as it was; the record numbers "1" and "2"
\* select the first and the second element.
UpdateReplacesOneRecord ==
    [][/\ (/\ state = "AwaitingUpdateTarget"
           /\ \/ line = <<"1">> /\ Len(records) >= 1
              \/ line = <<"2">> /\ Len(records) >= 2)
          => /\ state' = "AwaitingUpdateInput"
             /\ index' = [nan |-> FALSE, v |-> IF line = <<"1">> THEN 0 ELSE 1]
             /\ records' = records
       /\ (/\ state = "AwaitingUpdateInput"
           /\ ~index.nan
           /\ line \in DataLines
           /\ ParsedLine[line].err = ""
           /\ Len(ParsedLine[line].records) = 1
           /\ Len(ParsedLine[line].records[1]) = 17)
          => LET d == ParsedLine[line].records[1]
                 i == index.v + 1
             IN  /\ i \in 1..Len(records)
                 /\ Len(records') = Len(records)
                 /\ \A k \in 1..Len(records) : k # i => records'[k] = records[k]
                 /\ records'[i].Date = d[1]
                 /\ records'[i].Month = parseInt(d[2])
                 /\ records'[i].KeyPoint = d[6]
                 /\ records'[i].Latitude = parseFloat(d[7])
                 /\ records'[i].ReasonForVariance = d[17]
                 /\ records'[i] = NewDetailedRecord(d)]_vars

\* The first of two records has just been replaced, the second is as loaded.
UpdateReplacesOneRecordWitness ==
    /\ last = Did("update", "updated")
    /\ Len(records) = 2
    /\ records[1].KeyPoint = <<"x", ",", "y">>
    /\ records[2].KeyPoint = <<"k">>

\* C3: when Delete is answered with a record number i within 1..length,
\* the array is one element shorter, the elements before position i are as
\* they were and every element behind it has moved down by one position.
DeleteRemovesOneRecord ==
    [][\A i \in 1..2 :
        (/\ state = "AwaitingDeleteTarget"
         /\ line = <<(<<"1", "2">>)[i]>>
         /\ i <= Len(records))
        => /\ Len(records') = Len(records) - 1
           /\ \A k \in 1..(i - 1) : records'[k] = records[k]
           /\ \A k \in i..(Len(records) - 1) : records'[k] = records[k + 1]
           /\ state' = "AwaitingMenuChoice"]_vars

\* The first of two records has just been deleted: the second is now first.
DeleteRemovesOneRecordWitness ==
    /\ last = Did("delete", "deleted")
    /\ Len(records) = 1
    /\ records[1].KeyPoint = <<"k">>
    /\ files[filePath] = FileGood

\* C4: when Create is answered with an empty or all-blank line, or with a
\* line that parses to fewer or more than 17 fields, the error is reported,
\* the array is as it was and the menu is shown again.
CreateRejectsWithoutMutation ==
    [][(/\ state = "AwaitingCreateInput"
        /\ line \in DataLines
        /\ \/ \A k \in 1..Len(line) : line[k] = " "
           \/ /\ ParsedLine[line].err = ""
              /\ Len(ParsedLine[line].records) = 1
              /\ Len(ParsedLine[line].records[1]) # 17)
       => /\ records' = records
          /\ state' = "AwaitingMenuChoice"
          /\ last'.op = "create"
          /\ last'.outcome \in {"no-input", "field-count"}]_vars

\* A Create has just been turned down for its field count.
CreateRejectsWithoutMutationWitness ==
    /\ last = Did("create", "field-count")
    /\ state = "AwaitingMenuChoice"
    /\ Len(records) = 1

\* C5: when Update has taken a record number within 1..length and is
\* answered with a line that parses to fewer or more than 17 fields, the
\* array is as it was and the menu is shown again.
UpdateRejectsOtherFieldCounts ==
    [][(/\ state = "AwaitingUpdateInput"
        /\ ~index.nan
        /\ line \in DataLines
        /\ ParsedLine[line].err = ""
        /\ Len(ParsedLine[line].records) = 1
        /\ Len(ParsedLine[line].records[1]) # 17)
       => /\ records' = records
          /\ state' = "AwaitingMenuChoice"]_vars

\* C6: when Update or Delete is answered with a number outside 1..length
\* (0, a negative number, a number above the length, any number for an empty
\* array), the array is as it was and the menu is shown again, Update
\* without asking for the data line.
IndexOutOfRangeRejected ==
    [][\A a \in { <<"0", 0>>, <<"1", 1>>, <<"2", 2>>, <<"9", 9>> } :
        (/\ state \in {"AwaitingUpdateTarget", "AwaitingDeleteTarget"}
         /\ \/ line = <<a[1]>> /\ a[2] \notin 1..Len(records)
            \/ line = <<"-", a[1]>> /\ a[2] # 0)
        => /\ records' = records
           /\ state' = "AwaitingMenuChoice"
           /\ last'.outcome = "invalid"]_vars

\* An Update on an empty array has just been turned down at its record number.
IndexOutOfRangeRejectedWitness ==
    /\ last = Did("update-target", "invalid")
    /\ state = "AwaitingMenuChoice"
    /\ records = <<>>
    /\ files[filePath] = FileEmpty

\* C7: when Delete is answered with a text that is no number, the array is
\* as it was and the menu is shown again.
DeleteRejectsNonNumeric ==
    [][(state = "AwaitingDeleteTarget" /\ line = <<"x">>)
       => /\ records' = records
          /\ state' = "AwaitingMenuChoice"]_vars

\* C8: when Update is answered with a text that is no number, the menu is
\* shown again without the data line being asked for, and the array is as
\* it was.
UpdateRejectsNonNumeric ==
    [][(state = "AwaitingUpdateTarget" /\ line = <<"x">>)
       => /\ state' = "AwaitingMenuChoice"
          /\ records' = records]_vars

(***************************************************************************)
(* Properties of Reload.                                                   *)
(***************************************************************************)

\* C9: when the load of a Reload fails, for a text the parser turns down
\* or for a file that cannot be opened, the error is reported, the array is
\* as it was before the Reload and the menu is shown again.
ReloadFailureKeepsRecords ==
    [][(/\ state = "Reloading"
        /\ files' = files
        /\ files[filePath] \in DamagedTexts)
       => /\ records' = records
          /\ state' = "AwaitingMenuChoice"
          /\ last' = Did("reload", "rejected")]_vars

\* C10: when the load of a Reload succeeds, the array becomes the records
\* the loader yields for the text at the path the program was started with,
\* whatever was created, updated or deleted before; Save leaves the text at
\* that path as it is.
ReloadReplacesRecords ==
    [][/\ (/\ state = "Reloading"
           /\ files' = files
           /\ loadDataset(files[filePath]).outcome = "resolved")
          => /\ records' = loadDataset(files[filePath]).records
             /\ state' = "AwaitingMenuChoice"
       /\ (state = "AwaitingMenuChoice" /\ line = <<"6">>)
          => /\ files'[filePath] = files[filePath]
             /\ records' = records]_vars

\* A Reload has just succeeded after edited records were saved: the array
\* is the loader's again and differs from what was saved.
ReloadReplacesRecordsWitness ==
    /\ last = Did("reload", "resolved")
    /\ files[filePath] = FileGood
    /\ files[outputFile] # Absent
    /\ files[outputFile] # csvContent(records)
    /\ Len(records) = 2
    /\ records[2].KeyPoint = <<"k">>

(***************************************************************************)
(* Properties of the result, of startup and of the loader's failures.      *)
(***************************************************************************)

\* C11: once the menu has been entered, the promise runProgram returns is
\* settled by the Exit step and by no earlier step, and it is settled
\* when Exit has been taken.
ResultDeliveredOnlyAtExit ==
    [][/\ (state # "Loading" /\ promise = "pending" /\ promise' = "resolved")
          => (state = "AwaitingMenuChoice" /\ line = <<"8">>)
       /\ (state = "AwaitingMenuChoice" /\ line = <<"8">>)
          => (promise' = "resolved" /\ records' = records)]_vars

MissingFileIsRejected ==
    [][(/\ state \in {"Loading", "Reloading"}
        /\ files' = files
        /\ files[filePath] = Absent)
       => /\ last'.outcome = "rejected"
          /\ state' # "Crashed"]_vars

(***************************************************************************)
(* Properties of Save.                                                     *)
(***************************************************************************)

\* C14: when the array is as the loader yielded it for the dataset file and
\* has been saved, loading the saved text yields the same array again.
SaveThenLoadReproducesRecords ==
    (/\ last = Did("save", "saved")
     /\ loaded(files[filePath]).outcome = "resolved"
     /\ records = loaded(files[filePath]).records)
    => /\ loadDataset(files[outputFile]).outcome = "resolved"
       /\ loadDataset(files[outputFile]).records = records

\* C15: a Save that writes leaves at the output path the header line of the
\* 17 titles followed by one line per record, in order, of the record's 17
\* values in column order joined by commas; a text value holding a comma is
\* put in quotes with its quotes doubled; whatever the file held before is
\* gone.
SaveWritesHeaderAndRows ==
    [][(state = "AwaitingMenuChoice" /\ line = <<"6">> /\ last'.outcome = "saved")
       => LET cell(v) ==
                  IF ~v.isText THEN NumberToString(v.num)
                  ELSE IF \E k \in 1..Len(v.text) : v.text[k] = ","
                  THEN <<"\"">> \o escapeQuotes(v.text) \o <<"\"">>
                  ELSE v.text
              row(r) == Join([j \in 1..17 |-> cell(ObjectValues(r)[j])], <<",">>)
              rows == [k \in 1..Len(records) |-> row(records[k])]
              text == files'[outputFile]
          IN  /\ text = Join(<<Join(headers, <<",">>)>> \o rows, <<"\n">>)
              /\ Len(headers) = 17
              /\ SubSeq(text, 1, 16) = <<"D", "a", "t", "e", ",", "M", "o", "n", "t", "h", ",", "Y", "e", "a", "r", ",">>
              /\ (Len(records) = 1 /\ records[1].KeyPoint = <<"x", ",", "y">>)
                 => SubSeq(text, Len(headerLine) + 1, Len(text))
                        = <<"\n">> \o <<"f", ",", "7", ",", "9", ",", ",", "q", ",", "\"", "x", ",", "y", "\"", ",", "-", "1", ".", "5", ",", "N", "a", "N", ",", "s", ",", "i", ",", "g", ",", "0", ",", "N", "a", "N", ",", "2", ",", "3", ",", "-", "4", ",", "r">>]_vars

\* Two records, the first with a comma in its KeyPoint, have just been saved.
SaveWritesHeaderAndRowsWitness ==
    /\ last = Did("save", "saved")
    /\ Len(records) = 2
    /\ records[1].KeyPoint = <<"x", ",", "y">>
    /\ files[outputFile] = csvContent(records)

\* C16: a Save whose write fails reports the failure, leaves the array and
\* the files as they were and shows the menu again; a Save ends in no
\* other way than written or reported as failed.
SaveFailureIsReported ==
    [][(state = "AwaitingMenuChoice" /\ line = <<"6">>)
       => /\ last'.op = "save"
          /\ last'.outcome \in {"saved", "failed"}
          /\ records' = records
          /\ state' = "AwaitingMenuChoice"
          /\ last'.outcome = "failed" => files' = files]_vars

\* A Save of edited records has just failed: nothing is at the output path.
SaveFailureIsReportedWitness ==
    /\ last = Did("save", "failed")
    /\ state = "AwaitingMenuChoice"
    /\ files[outputFile] = Absent
    /\ Len(records) = 1
    /\ records[1].KeyPoint = <<"x", ",", "y">>

\* C17: the path Save writes is not the path the dataset is loaded from: a
\* Save changes the text at the output path only, and no step of the
\* program changes the text at the dataset's path.
SaveNeverTouchesSource ==
    [][/\ outputFile # filePath
       /\ (state # "Reloading" \/ state' # "Reloading")
          => files'[filePath] = files[filePath]
       /\ (state = "AwaitingMenuChoice" /\ line = <<"6">> /\ last'.outcome = "saved")
          => /\ files'[outputFile] # Absent
             /\ files'[filePath] = files[filePath]]_vars

\* Edited records have been saved and the dataset file is as it was.
SaveNeverTouchesSourceWitness ==
    /\ last = Did("save", "saved")
    /\ files[filePath] = FileGood
    /\ files[outputFile] # Absent
    /\ files[outputFile] # FileGood
    /\ Len(records) = 1

(***************************************************************************)
(* Properties of the loader.                                               *)
(***************************************************************************)

\* C18: a load never makes a record of the file's first line: a file of
\* the header line and one row yields the one record of that row, a file of
\* the header line alone yields none.
LoaderSkipsHeader ==
    [][(/\ state \in {"Loading", "Reloading"}
        /\ files' = files
        /\ files[filePath] \in {FileGood, FileHeaderOnly})
       => records' = IF files[filePath] = FileGood
                     THEN <<RowRecord(PlainFields)>> ELSE <<>>]_vars

\* C19: every numeric field of every record of the array is a number, not
\* NaN, in every state (a record made of the header line left aside).
NumericFieldsAreNumbers ==
    \A k \in 1..Len(records) :
        records[k].Date # headers[1]
        => \A f \in {"Month", "Year", "Latitude", "Longitude", "Throughput",
                     "CommittedVolumes", "UncommittedVolumes",
                     "NameplateCapacity", "AvailableCapacity"} :
               ~records[k][f].nan

(***************************************************************************)
(* The loader on files of three rows whose KeyPoint is written plainly or  *)
(* in quotes, with commas and doubled quotes inside the quotes.            *)
(***************************************************************************)
\* A KeyPoint as the file writes it (raw) and the text it stands for (value).
KeyPointForms ==
    { [raw |-> <<"k">>, value |-> <<"k">>],
      [raw |-> <<Quote, "x", ",", "y", Quote>>, value |-> <<"x", ",", "y">>],
      [raw |-> <<Quote, "a", Quote, Quote, "b", Quote>>,
       value |-> <<"a", Quote, "b">>],
      [raw |-> <<Quote, "p", ",", Quote, Quote, "q", Quote, Quote, ",", Quote>>,
       value |-> <<"p", ",", Quote, "q", Quote, ",">>],
      [raw |-> <<Quote, Quote>>, value |-> <<>>] }

RowWith(form) == Join([PlainFields EXCEPT ![6] = form.raw], <<Delimiter>>)

FileOfRows(a, b, c) ==
    Join(<<headerLine, RowWith(a), RowWith(b), RowWith(c)>>, <<NL>>) \o <<NL>>

QuotedFiles == {FileOfRows(a, b, c) : a \in KeyPointForms, b \in KeyPointForms,
                                      c \in KeyPointForms}

LoaderInit ==
    /\ state = "Loading"
    /\ line = NoLine
    /\ records = <<>>
    /\ index = NoIndex
    /\ files \in [Paths -> QuotedFiles \cup {Absent}]
    /\ files[filePath] \in QuotedFiles
    /\ files[outputFile] = Absent
    /\ promise = "pending"
    /\ rlClose = "override"
    /\ menuShown = 0
    /\ year = NoIndex
    /\ last = Did("start", "")

LoaderNext == InitialLoad

LoaderSpec == LoaderInit /\ [][LoaderNext]_vars

\* C20: a row whose KeyPoint is written in quotes, with commas and doubled
\* quotes inside, yields exactly one record: the load yields one record per
\* line of the file, each row's record has the KeyPoint the quotes stand
\* for and, before and behind it, the fields of the row in their places.
LoaderIsQuoteAware ==
    [][\A a \in KeyPointForms, b \in KeyPointForms, c \in KeyPointForms :
        (state = "Loading" /\ files[filePath] = FileOfRows(a, b, c))
        => /\ last' = Did("load", "resolved")
           /\ Len(records') = 4
           /\ \A k \in 1..3 :
                LET r == records'[k + 1]
                    form == <<a, b, c>>[k]
                IN  /\ r.KeyPoint = form.value
                    /\ r.Pipeline = <<"p">>
                    /\ r.Latitude = Num(15, 1)
                    /\ r.Longitude = Num(-2, 0)
                    /\ r.AvailableCapacity = Num(7, 0)
                    /\ r.ReasonForVariance = <<"r">>
                    /\ r = [RowRecord(PlainFields) EXCEPT !.KeyPoint = form.value]]_vars

\* A file whose rows hold a comma and doubled quotes in quotes has been loaded.
LoaderIsQuoteAwareWitness ==
    /\ last = Did("load", "resolved")
    /\ Len(records) = 4
    /\ records[2].KeyPoint = <<"x", ",", "y">>
    /\ records[3].KeyPoint = <<"a", Quote, "b">>
    /\ records[4].KeyPoint = <<"p", ",", Quote, "q", Quote, ",">>

\* C21: a load goes on past a short or garbled line: the load of a file
\* whose second line has two fields resolves, as does a reload of it.
LoaderToleratesShortLine ==
    [][(/\ state \in {"Loading", "Reloading"}
        /\ files' = files
        /\ files[filePath] = FileBad)
       => /\ last'.outcome = "resolved"
          /\ state' = "AwaitingMenuChoice"]_vars

(***************************************************************************)
(* The listing of the records (utils/displayUtils, displayRecord).         *)
(***************************************************************************)
NotAvailable == <<"N", "/", "A">>

\* formatValue(value): 'N/A' for null, undefined, '' and 0, else the value,
\* which pc.green() turns into text.
formatValue(v) ==
    IF v.isText
    THEN IF v.text = Undefined \/ v.text = <<>> THEN NotAvailable ELSE v.text
    ELSE IF ~v.num.nan /\ v.num.m = 0 THEN NotAvailable
    ELSE NumberToString(v.num)

\* displayRecord(record): the 17 values shown, in order.  Date is shown
\* through `record.Date ?? 'N/A'`, the others through formatValue.
displayRecord(r) ==
    [j \in 1..FieldCount |->
        IF j = 1
        THEN IF r.Date = Undefined THEN NotAvailable ELSE r.Date
        ELSE formatValue(ObjectValues(r)[j])]

\* C22: when the records have been listed, a field is shown as "N/A"
\* exactly if it is the empty text (or undefined); a numeric field that is
\* 0 is shown as "0".
DisplayShowsZeroAndNotAvailable ==
    last = Did("menu", "display")
    => \A k \in 1..Len(records) : \A j \in 1..17 :
          LET v == ObjectValues(records[k])[j]
              shown == displayRecord(records[k])[j]
          IN  /\ (~v.isText /\ v.num = Num(0, 0)) => shown = <<"0">>
              /\ (v.isText /\ v.text = <<>>) => shown = <<"N", "/", "A">>
              /\ shown = <<"N", "/", "A">> => (v.isText /\ v.text \in {<<>>, Undefined})


\* C23: every operation started from the menu comes back to the menu (by way
\* of its own further prompts only), and the session ends only through the
\* Exit choice made at the menu: no step of an operation leaves the session
\* anywhere else.
OperationReturnsToMenu ==
    [][/\ (state \in {"AwaitingCreateInput", "AwaitingUpdateTarget",
                      "AwaitingUpdateInput", "AwaitingDeleteTarget",
                      "Reloading", "AwaitingChartTarget", "ChartShown"}
           /\ state' # state)
          => state' \in {"AwaitingMenuChoice", "AwaitingUpdateInput", "ChartShown"}
       /\ (state = "AwaitingMenuChoice" /\ state' = "Terminated")
          => last' = Did("menu", "exit")]_vars

(***************************************************************************)
(* The controller with processMenuChoice and the charting menu: the same   *)
(* prompt callbacks, another dispatch of the menu choice.                  *)
(***************************************************************************)
\* Math.min(term.width - 40, 50) on a terminal of 90 columns or more.
maxBarLength == 50

\* a === b for two numbers
StrictEquals(a, b) == ~a.nan /\ ~b.nan /\ a = b

\* The decimals needed to write every charted value of recs as an integer.
ChartDecimals(recs) ==
    LET es == {0} \cup {recs[k].Throughput.e : k \in 1..Len(recs)}
                  \cup {recs[k].AvailableCapacity.e : k \in 1..Len(recs)}
    IN  CHOOSE e \in es : \A f \in es : f <= e

\* xs.filter(keep).reduce((sum, x) => sum + (x || 0), 0) over the first n
\* elements, at the scale 10^-E.
RECURSIVE reduceSum(_, _, _, _)
reduceSum(xs, keep, E, n) ==
    IF n = 0 THEN 0
    ELSE reduceSum(xs, keep, E, n - 1) + (IF keep[n] THEN Scaled(xs[n], E) ELSE 0)

Throughputs(recs) == [k \in 1..Len(recs) |-> recs[k].Throughput]
Capacities(recs) == [k \in 1..Len(recs) |-> recs[k].AvailableCapacity]

\* displayHorizontalBarChartFromData: ' '.repeat(barLength) throws a
\* RangeError for a bar length Math.round((value / maxValue) * maxBarLength)
\* below zero.  Only the first `labels` values are drawn; maxValue is taken
\* over all of them and 1.
displayHorizontalBarChartFromData(labels, throughputValues, capacityValues, E) ==
    LET all == {throughputValues[k] : k \in DOMAIN throughputValues}
                 \cup {capacityValues[k] : k \in DOMAIN capacityValues}
                 \cup {Pow10(E)}
        maxValue == CHOOSE v \in all : \A w \in all : w <= v
        negative(v) == 2 * v * maxBarLength < -maxValue
    IN  IF \E k \in 1..labels : negative(throughputValues[k]) \/ negative(capacityValues[k])
        THEN "throws" ELSE "drawn"

\* `${monthNames[record.Month - 1]}`: the month's name, or "undefined".
monthLabel(m) == IF ~m.nan /\ m.e = 0 /\ m.m \in 1..12 THEN m.m ELSE 0

\* displayHorizontalBarChart(data, title, groupByMonth)
displayHorizontalBarChart(data, groupByMonth) ==
    LET E == ChartDecimals(data)
        n == Len(data)
        inMonth(j) == [k \in 1..n |-> StrictEquals(data[k].Month, Num(j, 0))]
        each(k) == [i \in 1..n |-> i = k]
    IN  IF groupByMonth
        THEN displayHorizontalBarChartFromData(
                Cardinality({monthLabel(data[k].Month) : k \in 1..n}),
                [j \in 1..12 |-> reduceSum(Throughputs(data), inMonth(j), E, n)],
                [j \in 1..12 |-> reduceSum(Capacities(data), inMonth(j), E, n)], E)
        ELSE displayHorizontalBarChartFromData(n,
                [k \in 1..n |-> reduceSum(Throughputs(data), each(k), E, n)],
                [k \in 1..n |-> reduceSum(Capacities(data), each(k), E, n)], E)

\* records.filter(keep)
RECURSIVE filter(_, _, _)
filter(recs, keep, n) ==
    IF n = 0 THEN <<>>
    ELSE filter(recs, keep, n - 1) \o (IF keep[n] THEN <<recs[n]>> ELSE <<>>)

\* interactiveChartMenu, case '1': the records of one month of one year.
chartOfMonth(recs, y, m) ==
    LET filtered == filter(recs, [k \in 1..Len(recs) |->
                        StrictEquals(recs[k].Year, y) /\ StrictEquals(recs[k].Month, m)],
                        Len(recs))
    IN  IF filtered = <<>> THEN "no-data" ELSE displayHorizontalBarChart(filtered, FALSE)

\* interactiveChartMenu, case '2': the records of one year, by month.
chartOfYear(recs, y) ==
    LET yearData == filter(recs, [k \in 1..Len(recs) |-> StrictEquals(recs[k].Year, y)],
                           Len(recs))
    IN  IF yearData = <<>> THEN "no-data" ELSE displayHorizontalBarChart(yearData, TRUE)

\* interactiveChartMenu, case '3': the totals of every year.  A Set keeps
\* one NaN, and no record's Year === NaN, so its totals are 0.
chartOfYears(recs) ==
    LET n == Len(recs)
        E == ChartDecimals(recs)
        years == {recs[k].Year : k \in 1..n}
        inYear(y) == [k \in 1..n |-> StrictEquals(recs[k].Year, y)]
        order == CHOOSE f \in [1..Cardinality(years) -> years] :
                    \A a, b \in DOMAIN f : a # b => f[a] # f[b]
    IN  displayHorizontalBarChartFromData(Cardinality(years),
            [j \in 1..Cardinality(years) |->
                reduceSum(Throughputs(recs), inYear(order[j]), E, n)],
            [j \in 1..Cardinality(years) |->
                reduceSum(Capacities(recs), inYear(order[j]), E, n)], E)

\* Where interactiveChartMenu goes after a case: returnToChartMenu() waits
\* for a key; a RangeError rejects the promise of the prompt callback, which
\* nothing handles.
AfterChart(outcome) == IF outcome = "throws" THEN "Crashed" ELSE "AwaitingKey"

\* processMenuChoice('1'), then its showMenu().
ProcessDisplay ==
    /\ state = "AwaitingMenuChoice"
    /\ line = <<"1">>
    /\ line' = NoLine
    /\ last' = Did("menu", "display")
    /\ menuShown' = showMenu(menuShown)
    /\ UNCHANGED <<state, records, index, files, promise, rlClose, year>>

\* processMenuChoice('2'): createRecord() returns with its prompt asked, the
\* await ends at once and showMenu() runs; rl.question drops the menu's
\* question because the other one is pending.
ProcessCreate ==
    /\ state = "AwaitingMenuChoice"
    /\ line = <<"2">>
    /\ line' = NoLine
    /\ state' = "AwaitingCreateInput"
    /\ last' = Did("menu", "create")
    /\ menuShown' = showMenu(menuShown)
    /\ UNCHANGED <<records, index, files, promise, rlClose, year>>

\* processMenuChoice('3'), in the same way.
ProcessUpdate ==
    /\ state = "AwaitingMenuChoice"
    /\ line = <<"3">>
    /\ line' = NoLine
    /\ state' = "AwaitingUpdateTarget"
    /\ last' = Did("menu", "update")
    /\ menuShown' = showMenu(menuShown)
    /\ UNCHANGED <<records, index, files, promise, rlClose, year>>

\* processMenuChoice('4'), in the same way.
ProcessDelete ==
    /\ state = "AwaitingMenuChoice"
    /\ line = <<"4">>
    /\ line' = NoLine
    /\ state' = "AwaitingDeleteTarget"
    /\ last' = Did("menu", "delete")
    /\ menuShown' = showMenu(menuShown)
    /\ UNCHANGED <<records, index, files, promise, rlClose, year>>

\* processMenuChoice('5') up to the await of reloadDataset().
ProcessReload ==
    /\ state = "AwaitingMenuChoice"
    /\ line = <<"5">>
    /\ line' = NoLine
    /\ state' = "Reloading"
    /\ last' = Did("menu", "reload")
    /\ UNCHANGED <<records, index, files, promise, rlClose, menuShown, year>>

\* The load settles: reloadDataset() ends with showMenu(), and processMenuChoice
\* goes on to its own showMenu().
ProcessReloadDone ==
    /\ state = "Reloading"
    /\ LET l == loaded(files[reloadPath]) IN
       /\ records' = reloadDataset(records, l)
       /\ state' = IF l.outcome = "uncaught" THEN "Crashed" ELSE "AwaitingMenuChoice"
       /\ last' = Did("reload", l.outcome)
    /\ menuShown' = IF state' = "AwaitingMenuChoice"
                    THEN showMenu(showMenu(menuShown)) ELSE menuShown
    /\ UNCHANGED <<line, index, files, promise, rlClose, year>>

\* processMenuChoice('6'): saveDataset() ends with showMenu(), then the
\* showMenu() of processMenuChoice.
ProcessSave ==
    /\ state = "AwaitingMenuChoice"
    /\ line = <<"6">>
    /\ line' = NoLine
    /\ \E opened \in BOOLEAN :
        /\ files' = saveDataset(files, records, opened)
        /\ last' = Did("save", IF opened THEN "saved" ELSE "failed")
    /\ menuShown' = showMenu(showMenu(menuShown))
    /\ UNCHANGED <<state, records, index, promise, rlClose, year>>

\* processMenuChoice('7'): interactiveChartMenu() asks for the charting option.
ProcessChart ==
    /\ state = "AwaitingMenuChoice"
    /\ line = <<"7">>
    /\ line' = NoLine
    /\ state' = "AwaitingChartChoice"
    /\ last' = Did("menu", "chart")
    /\ UNCHANGED <<records, index, files, promise, rlClose, menuShown, year>>

\* processMenuChoice('8'): rl.close() and return, without the menu.
ProcessExit ==
    /\ state = "AwaitingMenuChoice"
    /\ line = <<"8">>
    /\ line' = NoLine
    /\ state' = "Terminated"
    /\ promise' = closed(promise, rlClose)
    /\ last' = Did("menu", "exit")
    /\ UNCHANGED <<records, index, files, rlClose, menuShown, year>>

\* processMenuChoice(anything else), then its showMenu().
ProcessInvalid ==
    /\ state = "AwaitingMenuChoice"
    /\ line \in { <<"9">>, <<>> }
    /\ line' = NoLine
    /\ last' = Did("menu", "invalid")
    /\ menuShown' = showMenu(menuShown)
    /\ UNCHANGED <<state, records, index, files, promise, rlClose, year>>

\* interactiveChartMenu after the charting option is read.  Case '4' calls
\* showMenu() and returns to processMenuChoice, which calls it again.
ChartChoice ==
    /\ state = "AwaitingChartChoice"
    /\ line # NoLine
    /\ state' = CASE line = <<"1">> -> "AwaitingMonthChartYear"
                  [] line = <<"2">> -> "AwaitingYearChartYear"
                  [] line = <<"3">> -> AfterChart(chartOfYears(records))
                  [] line = <<"4">> -> "AwaitingMenuChoice"
                  [] OTHER -> "AwaitingKey"
    /\ last' = Did("chart-choice",
                   CASE line = <<"3">> -> chartOfYears(records)
                     [] line = <<"4">> -> "return"
                     [] line \in { <<"1">>, <<"2">> } -> "accepted"
                     [] OTHER -> "invalid")
    /\ menuShown' = IF line = <<"4">> THEN showMenu(showMenu(menuShown)) ELSE menuShown
    /\ line' = NoLine
    /\ UNCHANGED <<records, index, files, promise, rlClose, year>>

\* Case '1' after "Enter the year: ".
ChartMonthYear ==
    /\ state = "AwaitingMonthChartYear"
    /\ line # NoLine
    /\ year' = [nan |-> parseInt(line).nan, v |-> parseInt(line).m]
    /\ state' = "AwaitingChartMonth"
    /\ last' = Did("chart-year", "accepted")
    /\ line' = NoLine
    /\ UNCHANGED <<records, index, files, promise, rlClose, menuShown>>

\* Case '1' after "Enter the month (1-12): ".
ChartMonth ==
    /\ state = "AwaitingChartMonth"
    /\ line # NoLine
    /\ LET y == IF year.nan THEN NaN ELSE Num(year.v, 0)
           c == chartOfMonth(records, y, parseInt(line))
       IN  /\ state' = AfterChart(c)
           /\ last' = Did("chart-month", c)
    /\ year' = NoIndex
    /\ line' = NoLine
    /\ UNCHANGED <<records, index, files, promise, rlClose, menuShown>>

\* Case '2' after "Enter the year: ".
ChartYear ==
    /\ state = "AwaitingYearChartYear"
    /\ line # NoLine
    /\ LET c == chartOfYear(records, parseInt(line)) IN
        /\ state' = AfterChart(c)
        /\ last' = Did("chart-year", c)
    /\ line' = NoLine
    /\ UNCHANGED <<records, index, files, promise, rlClose, menuShown, year>>

\* returnToChartMenu(): a key is pressed, interactiveChartMenu returns and
\* processMenuChoice shows the menu.
ReturnToChartMenu ==
    /\ state = "AwaitingKey"
    /\ state' = "AwaitingMenuChoice"
    /\ last' = Did("chart-key", "")
    /\ menuShown' = showMenu(menuShown)
    /\ UNCHANGED <<line, records, index, files, promise, rlClose, year>>

MenuNext ==
    \/ InitialLoad
    \/ ReadLine
    \/ ProcessDisplay
    \/ ProcessCreate
    \/ ProcessUpdate
    \/ ProcessDelete
    \/ ProcessReload
    \/ ProcessReloadDone
    \/ ProcessSave
    \/ ProcessChart
    \/ ProcessExit
    \/ ProcessInvalid
    \/ CreateInput
    \/ UpdateTarget
    \/ UpdateInput
    \/ DeleteTarget
    \/ ChartChoice
    \/ ChartMonthYear
    \/ ChartMonth
    \/ ChartYear
    \/ ReturnToChartMenu
    \/ SourceFileDamaged

MenuSpec == Init /\ [][MenuNext]_vars

\* C24: one command at a time: the menu is shown, and its prompt asked, at
\* most once per line read, and never while an operation's own prompt or
\* step is still pending.
OneCommandAtATime ==
    /\ menuShown <= 1
    /\ state \in {"AwaitingCreateInput", "AwaitingUpdateTarget",
                  "AwaitingUpdateInput", "AwaitingDeleteTarget", "Reloading",
                  "AwaitingChartTarget", "ChartShown", "AwaitingChartChoice",
                  "AwaitingMonthChartYear", "AwaitingChartMonth",
                  "AwaitingYearChartYear", "AwaitingKey"}
       => menuShown = 0

\* C27: when the next menu choice is read, the menu has been shown and its
\* prompt asked exactly once since the operation before it completed.
MenuShownOncePerChoice ==
    [][(state = "AwaitingMenuChoice" /\ line = NoLine /\ line' # NoLine)
       => menuShown = 1]_vars

\* C25: List, Save, the chart option and an unrecognised choice are
\* read-only: no step of them changes the array of records.
ReadOnlyOperationsKeepRecords ==
    [][(\/ state = "AwaitingMenuChoice"
           /\ line \in { <<"1">>, <<"6">>, <<"7">>, <<"9">>, <<>> }
        \/ state \in {"AwaitingChartTarget", "ChartShown"})
       => records' = records]_vars

ReadOnlyOperationsKeepRecordsWitness ==
    /\ last = Did("menu", "display")
    /\ state = "AwaitingMenuChoice"
    /\ Len(records) >= 1

(***************************************************************************)
(* display() of the record classes.                                        *)
(***************************************************************************)
\* The character U+00B3 of "m3/day" with a superscript three.
Cubed == "^3"

\* The fixed pieces of the two template literals.
DetailedMarker ==
    << "D", "e", "t", "a", "i", "l", "e", "d", " ", "R", "e", "c", "o", "r",
       "d", ":" >>

BaseDate ==
    << "D", "a", "t", "e", ":", " " >>

BaseCompany ==
    << ",", " ", "C", "o", "m", "p", "a", "n", "y", ":", " " >>

BaseProduct ==
    << ",", " ", "P", "r", "o", "d", "u", "c", "t", ":", " " >>

DetailedDate ==
    << NL, " ", " ", " ", " ", " ", " ", " ", " ", "D", "a", "t", "e", ":",
       " " >>

DetailedYear ==
    << NL, " ", " ", " ", " ", " ", " ", " ", " ", "Y", "e", "a", "r", ":",
       " " >>

DetailedCompany ==
    << NL, " ", " ", " ", " ", " ", " ", " ", " ", "C", "o", "m", "p", "a",
       "n", "y", ":", " " >>

DetailedPipeline ==
    << NL, " ", " ", " ", " ", " ", " ", " ", " ", "P", "i", "p", "e", "l",
       "i", "n", "e", ":", " " >>

DetailedThroughput ==
    << NL, " ", " ", " ", " ", " ", " ", " ", " ", "T", "h", "r", "o", "u",
       "g", "h", "p", "u", "t", ":", " " >>

DetailedCapacity ==
    << " ", "m", Cubed, "/", "d", "a", "y", NL, " ", " ", " ", " ", " ", " ",
       " ", " ", "A", "v", "a", "i", "l", "a", "b", "l", "e", " ", "C", "a",
       "p", "a", "c", "i", "t", "y", ":", " " >>

DetailedReason ==
    << " ", "m", Cubed, "/", "d", "a", "y", NL, " ", " ", " ", " ", " ", " ",
       " ", " ", "R", "e", "a", "s", "o", "n", " ", "f", "o", "r", " ", "V",
       "a", "r", "i", "a", "n", "c", "e", ":", " " >>

\* BaseRecord.prototype.display
BaseRecordDisplay(r) ==
    BaseDate \o r.Date \o BaseCompany \o r.Company \o BaseProduct \o r.Product

\* DetailedRecord.prototype.display
DetailedRecordDisplay(r) ==
    DetailedMarker \o DetailedDate \o r.Date
        \o DetailedYear \o NumberToString(r.Year)
        \o DetailedCompany \o r.Company
        \o DetailedPipeline \o r.Pipeline
        \o DetailedThroughput \o NumberToString(r.Throughput)
        \o DetailedCapacity \o NumberToString(r.AvailableCapacity)
        \o DetailedReason \o r.ReasonForVariance

\* display() of a class without the override: the inherited method.
displayInherited(class, r) == BaseRecordDisplay(r)

\* obj.display(): the method of the object's class, whatever the type of
\* the reference it is called through.
display(class, r) ==
    IF class = "DetailedRecord" THEN DetailedRecordDisplay(r) ELSE BaseRecordDisplay(r)

\* String.prototype.includes, as toContain uses it.
Contains(text, part) ==
    \E i \in 0..(Len(text) - Len(part)) : SubSeq(text, i + 1, i + Len(part)) = part

\* C26: display() of a DetailedRecord, the class of every element of the
\* records array, contains "Detailed Record:"; display() of a BaseRecord
\* with the same 17 values is another text, without "Detailed Record:".
DetailedRecordOverridesDisplay ==
    \A k \in 1..Len(records) :
        /\ Contains(display("DetailedRecord", records[k]), DetailedMarker)
        /\ ~Contains(display("BaseRecord", records[k]), DetailedMarker)
        /\ display("DetailedRecord", records[k]) # display("BaseRecord", records[k])

DetailedRecordOverridesDisplayWitness ==
    /\ Len(records) = 2
    /\ records[1] # records[2]
    /\ state = "AwaitingMenuChoice"

\* C28: a 17-field line gives the same record whether Create builds it from
\* the typed line or the loader reads it as the last row of the file.
SameRecordFromFileAndInput ==
    [][(state = "AwaitingCreateInput" /\ last' = Did("create", "created"))
       => LET l == loaded(headerLine \o <<NL>> \o line \o <<NL>>)
          IN  /\ l.outcome = "resolved"
              /\ l.records # <<>>
              /\ l.records[Len(l.records)] = records'[Len(records')]]_vars

\* Math.round((value / max) * 20) for integers value <= max at one scale:
\* NaN for 0 / 0, -Infinity for a negative value over 0.
barLength(value, max) ==
    IF max = 0
    THEN [kind |-> IF value = 0 THEN "NaN" ELSE "-Infinity", n |-> 0]
    ELSE [kind |-> "integer",
          n |-> IF max > 0 THEN (40 * value + max) \div (2 * max)
                ELSE (-(40 * value + max)) \div (-(2 * max))]

\* generateTerminalChart: the bar lengths of the four charted values.
barLengths(r) ==
    LET xs == <<r.Throughput, r.CommittedVolumes, r.UncommittedVolumes,
                r.AvailableCapacity>>
        E  == CHOOSE e \in {xs[k].e : k \in 1..4} : \A k \in 1..4 : xs[k].e <= e
        vs == [k \in 1..4 |-> Scaled(xs[k], E)]
        mx == CHOOSE v \in {vs[k] : k \in 1..4} : \A k \in 1..4 : vs[k] <= v
    IN  [k \in 1..4 |-> barLength(vs[k], mx)]

\* C29: every bar of a chart has an integer length from 0 to the maximum bar
\* length, and the chart of an accepted record number is drawn and waits for
\* the key that returns to the menu.
ChartBarsFitTheScale ==
    [][(state = "AwaitingChartTarget" /\ last' = Did("chart-target", "accepted"))
       => /\ state' = "ChartShown"
          /\ \A k \in 1..4 :
                LET b == barLengths(records[IndexOf(line).v + 1])[k]
                IN  b.kind = "integer" /\ b.n \in 0..20]_vars

====
